---- MODULE Spec2Model ----
(***************************************************************************)
(* Model of the health-impact evaluation engine (src/engine.py):           *)
(* HealthImpactEngine.convert_units, clean_input_data, classify_risk,      *)
(* evaluate_sample, determine_overall_risk and get_summary_statistics.     *)
(*                                                                         *)
(* Numbers.  A Python float is modelled as an exact fixed-point integer    *)
(* counting millionths: the float 0.05 is the integer 50000.  The inputs   *)
(* are chosen so that every product by a conversion factor is exact.       *)
(* float('inf') is the integer Inf, larger than every other number, and   *)
(* all other numbers stay below it (TLC's integers are 32 bits wide).     *)
(*                                                                         *)
(* Values.  A loosely typed Python value is a record [kind, num, str]:     *)
(* kind is "number" (a float or an int a float can hold), "bigint" (an int *)
(* beyond the float range), "bool", "str" (str = sequence of characters),  *)
(* "None" or "list".                                                       *)
(* An operator that models a function which may raise returns a record     *)
(* whose exc field names the exception, "none" when it returned.           *)
(*                                                                         *)
(* Dictionaries are functions; an absent key is a key outside DOMAIN.      *)
(***************************************************************************)
EXTENDS Integers, Sequences, FiniteSets, TLC

VARIABLES rules, op, raw, cleaned, result, raised,
          levels, overall, element, concentration, classification, summary,
          inputUnit, converted, calls

vars == <<rules, op, raw, cleaned, result, raised,
          levels, overall, element, concentration, classification, summary,
          inputUnit, converted, calls>>

(***************************************************************************)
(* Fixed point and Python values                                           *)
(***************************************************************************)
\* 1 ppb = 0.001 mg/L: one thousand ppb make one mg/L.
Kilo == 1000

\* the float 1.0, in millionths
One == Kilo * Kilo

\* float('inf')
Inf == 2000000000

Number(n) == [kind |-> "number", num |-> n, str |-> <<>>]
BigInt == [kind |-> "bigint", num |-> 0, str |-> <<>>]
Bool(b) == [kind |-> "bool", num |-> IF b THEN 1 ELSE 0, str |-> <<>>]
Str(s) == [kind |-> "str", num |-> 0, str |-> s]
None == [kind |-> "None", num |-> 0, str |-> <<>>]
\* the empty list []
List == [kind |-> "list", num |-> 0, str |-> <<>>]

\* dict.get(key, default)
Get(d, key, default) == IF key \in DOMAIN d THEN d[key] ELSE default

\* Python truthiness of a value: None, 0, False, "" and [] are falsy.
Truthy(v) ==
    CASE v.kind = "None" -> FALSE
      [] v.kind = "number" -> v.num # 0
      [] v.kind = "bool" -> v.num # 0
      [] v.kind = "str" -> v.str # <<>>
      [] v.kind = "list" -> FALSE
      [] OTHER -> TRUE

Digits == <<"0", "1", "2", "3", "4", "5", "6", "7", "8", "9">>
IsDigit(c) == \E d \in 1..10 : Digits[d] = c
DigitVal(c) == (CHOOSE d \in 1..10 : Digits[d] = c) - 1

RECURSIVE Pow10(_)
Pow10(k) == IF k = 0 THEN 1 ELSE 10 * Pow10(k - 1)

RECURSIVE StripLeft(_)
StripLeft(s) == IF s # <<>> /\ Head(s) = " " THEN StripLeft(Tail(s)) ELSE s

RECURSIVE StripRight(_)
StripRight(s) ==
    IF s # <<>> /\ s[Len(s)] = " " THEN StripRight(SubSeq(s, 1, Len(s) - 1)) ELSE s

\* value of a sequence of decimal digits
RECURSIVE DigitsValue(_)
DigitsValue(s) ==
    IF s = <<>> THEN 0
    ELSE 10 * DigitsValue(SubSeq(s, 1, Len(s) - 1)) + DigitVal(s[Len(s)])

AllDigits(s) == \A i \in 1..Len(s) : IsDigit(s[i])

\* float(str): surrounding blanks are stripped; an optional sign, then
\* decimal digits with at most one point and at least one digit; any other
\* string raises ValueError.  The exponent, "inf", "nan" and "_" forms that
\* float() also reads are left out: no string of FieldValues has them.
ParseFloat(s) ==
    LET t == StripRight(StripLeft(s))
        signed == t # <<>> /\ t[1] \in {"-", "+"}
        body == IF signed THEN Tail(t) ELSE t
        dots == {i \in 1..Len(body) : body[i] = "."}
        ip == IF dots = {} THEN body
              ELSE SubSeq(body, 1, (CHOOSE i \in dots : TRUE) - 1)
        fp == IF dots = {} THEN <<>>
              ELSE SubSeq(body, (CHOOSE i \in dots : TRUE) + 1, Len(body))
        wellFormed == /\ Cardinality(dots) <= 1
                      /\ AllDigits(ip) /\ AllDigits(fp)
                      /\ Len(ip) + Len(fp) >= 1
        mag == DigitsValue(ip) * One + (DigitsValue(fp) * One) \div Pow10(Len(fp))
    IN  IF wellFormed
        THEN [exc |-> "none", num |-> IF signed /\ t[1] = "-" THEN 0 - mag ELSE mag]
        ELSE [exc |-> "ValueError", num |-> 0]

\* float(raw_value), engine.py line 76
Float(v) ==
    CASE v.kind = "number" -> [exc |-> "none", num |-> v.num]
      [] v.kind = "bool" -> [exc |-> "none", num |-> v.num * One]
      [] v.kind = "str" -> ParseFloat(v.str)
      [] v.kind = "bigint" -> [exc |-> "OverflowError", num |-> 0]
      [] OTHER -> [exc |-> "TypeError", num |-> 0]

(***************************************************************************)
(* The rule table (self.rules) and convert_units                           *)
(***************************************************************************)
EmptyDict == [k \in {} |-> 0]

\* d[key] = value, on a copy
Put(d, key, value) ==
    [k \in DOMAIN d \cup {key} |-> IF k = key THEN value ELSE d[k]]

\* self.rules.get('heavy_metals', {})
HeavyMetals(r) == Get(r, "heavy_metals", EmptyDict)

\* mutant: the ppb row of the table forgotten
ConversionFactor_NoPpb(input_unit, standard_unit) ==
    CASE input_unit = "ug/L" /\ standard_unit = "mg/L" -> 1
      [] OTHER -> Kilo

\* the conversions table of convert_units and its .get(..., 1.0); a factor is
\* written in thousandths (1.0 is Kilo, 0.001 is 1).  "ug/L" stands for the
\* source's micro-sign spelling.
ConversionFactor(input_unit, standard_unit) ==
    CASE input_unit = "ppm" /\ standard_unit = "mg/L" -> Kilo
      [] input_unit = "ppb" /\ standard_unit = "mg/L" -> 1
      [] input_unit = "ug/L" /\ standard_unit = "mg/L" -> 1
      [] input_unit = "mg/L" /\ standard_unit = "mg/L" -> Kilo
      [] OTHER -> Kilo

\* value * conversion_factor, the factor in thousandths; the product is
\* formed from the quotient and the remainder by Kilo to stay within the
\* integers TLC can hold.
Times(value, factor) ==
    (value \div Kilo) * factor + ((value % Kilo) * factor) \div Kilo

\* mutant: the element's own unit ignored, mg/L taken as the standard unit
convert_units_AlwaysMgL(r, elem, value, input_unit) ==
    IF elem \notin DOMAIN HeavyMetals(r)
    THEN value
    ELSE Times(value, ConversionFactor(input_unit, "mg/L"))

convert_units(r, elem, value, input_unit) ==
    IF elem \notin DOMAIN HeavyMetals(r)
    THEN value
    ELSE LET standard_unit == Get(r["heavy_metals"][elem], "unit", "mg/L")
         IN  Times(value, ConversionFactor(input_unit, standard_unit))

(***************************************************************************)
(* clean_input_data                                                        *)
(***************************************************************************)
\* key_mappings, in the order of the dict literal
KeyMappings ==
    << [key |-> "Fe (ppm)", element |-> "Fe", unit |-> "ppm"],
       [key |-> "As (ppb)", element |-> "As", unit |-> "ppb"],
       [key |-> "U (ppb)",  element |-> "U",  unit |-> "ppb"],
       [key |-> "Pb (ppm)", element |-> "Pb", unit |-> "ppm"],
       [key |-> "Cd (ppb)", element |-> "Cd", unit |-> "ppb"],
       [key |-> "Cr (ppm)", element |-> "Cr", unit |-> "ppm"],
       [key |-> "Hg (ppb)", element |-> "Hg", unit |-> "ppb"] >>

\* mutant: `not raw_value` in place of the comparisons with None and ""
IsMissing_Falsy(raw_value) ==
    \/ raw_value.kind = "str" /\ raw_value.str = <<"-">>
    \/ ~Truthy(raw_value)

\* raw_value == "-" or raw_value is None or raw_value == ""
IsMissing(raw_value) ==
    \/ raw_value.kind = "None"
    \/ raw_value.kind = "str" /\ raw_value.str \in {<<"-">>, <<>>}

\* the for loop of clean_input_data from entry i on; only ValueError and
\* TypeError are caught, any other exception leaves the function.
RECURSIVE CleanLoop(_, _, _, _)
CleanLoop(r, raw_data, i, cleaned_data) ==
    IF i > Len(KeyMappings)
    THEN [exc |-> "none", value |-> cleaned_data]
    ELSE LET m == KeyMappings[i]
         IN  IF m.key \notin DOMAIN raw_data
             THEN CleanLoop(r, raw_data, i + 1, cleaned_data)
             ELSE LET raw_value == raw_data[m.key]
                      numeric_value == Float(raw_value)
                  IN  IF IsMissing(raw_value)
                      THEN CleanLoop(r, raw_data, i + 1, cleaned_data)
                      ELSE IF numeric_value.exc = "none"
                      THEN CleanLoop(r, raw_data, i + 1,
                               Put(cleaned_data, m.element,
                                   convert_units(r, m.element, numeric_value.num, m.unit)))
                      ELSE IF numeric_value.exc \in {"ValueError", "TypeError"}
                      THEN CleanLoop(r, raw_data, i + 1, cleaned_data)
                      ELSE [exc |-> numeric_value.exc, value |-> cleaned_data]

clean_input_data(r, raw_data) == CleanLoop(r, raw_data, 1, EmptyDict)

\* the keys of a dict built by clean_input_data or evaluate_sample, in
\* insertion order: the order of key_mappings
Keys(d) ==
    LET Rec(i) == KeyMappings[i].element
        F[i \in 0..Len(KeyMappings)] ==
            IF i = 0 THEN <<>>
            ELSE IF Rec(i) \in DOMAIN d THEN Append(F[i - 1], Rec(i)) ELSE F[i - 1]
    IN  F[Len(KeyMappings)]

(***************************************************************************)
(* classify_risk                                                           *)
(***************************************************************************)
\* the dict classify_risk builds from a tier ('Risk Level' is Risk_Level,
\* 'Health Effects' is Health_Effects)
TierPayload(risk_level) ==
    [Risk_Level |-> Get(risk_level, "level", "Unknown"),
     Diseases |-> Get(risk_level, "diseases", <<>>),
     Health_Effects |-> Get(risk_level, "health_effects", <<>>),
     Symptoms |-> Get(risk_level, "symptoms", <<>>)]

\* mutant: the upper bound taken as inclusive
TierMatches_Inclusive(risk_level, c) ==
    LET min_val == Get(risk_level, "min_value", 0)
        max_val == Get(risk_level, "max_value", Inf)
    IN  min_val <= c /\ c <= max_val

\* min_val <= concentration < max_val
TierMatches(risk_level, c) ==
    LET min_val == Get(risk_level, "min_value", 0)
        max_val == Get(risk_level, "max_value", Inf)
    IN  min_val <= c /\ c < max_val

\* the for loop over risk_levels from index i on, then the fallback
RECURSIVE ScanTiers(_, _, _)
ScanTiers(risk_levels, i, c) ==
    IF i > Len(risk_levels)
    THEN IF risk_levels # <<>>
         THEN TierPayload(risk_levels[Len(risk_levels)])
         ELSE [Risk_Level |-> "No Classification Available",
               Diseases |-> <<>>, Health_Effects |-> <<>>, Symptoms |-> <<>>]
    ELSE IF TierMatches(risk_levels[i], c)
         THEN TierPayload(risk_levels[i])
         ELSE ScanTiers(risk_levels, i + 1, c)

classify_risk(r, elem, c) ==
    IF elem \notin DOMAIN HeavyMetals(r)
    THEN [Risk_Level |-> "Unknown Element",
          Diseases |-> <<>>,
          Health_Effects |-> <<"Element not in database.">>,
          Symptoms |-> <<>>]
    ELSE LET element_rules == r["heavy_metals"][elem]
             risk_levels == Get(element_rules, "risk_levels", <<>>)
         IN  ScanTiers(risk_levels, 1, c)

(***************************************************************************)
(* determine_overall_risk                                                  *)
(***************************************************************************)
\* risk_priority, in the order of the dict literal
risk_priority ==
    << [level |-> "Safe", score |-> 0],
       [level |-> "Elevated Risk", score |-> 1],
       [level |-> "High Risk", score |-> 2],
       [level |-> "Severe Risk", score |-> 3],
       [level |-> "Unknown Element", score |-> 0],
       [level |-> "No Classification Available", score |-> 0] >>

\* risk_priority.get(level, 0)
Priority(level) ==
    IF \E i \in 1..Len(risk_priority) : risk_priority[i].level = level
    THEN risk_priority[CHOOSE i \in 1..Len(risk_priority) :
                           risk_priority[i].level = level].score
    ELSE 0

\* mutant: min(...) in place of max(...)
MaxScore_Min(risk_levels) ==
    CHOOSE m \in {Priority(risk_levels[i]) : i \in 1..Len(risk_levels)} :
        \A i \in 1..Len(risk_levels) : Priority(risk_levels[i]) >= m

\* max(...) over a non-empty list
MaxScore(risk_levels) ==
    CHOOSE m \in {Priority(risk_levels[i]) : i \in 1..Len(risk_levels)} :
        \A i \in 1..Len(risk_levels) : Priority(risk_levels[i]) <= m

\* the for loop over risk_priority.items() from index i on
RECURSIVE FirstWithScore(_, _)
FirstWithScore(i, max_risk_score) ==
    IF i > Len(risk_priority) THEN "Unknown"
    ELSE IF risk_priority[i].score = max_risk_score THEN risk_priority[i].level
    ELSE FirstWithScore(i + 1, max_risk_score)

determine_overall_risk(risk_levels) ==
    IF risk_levels = <<>> THEN "No Data"
    ELSE FirstWithScore(1, MaxScore(risk_levels))

(***************************************************************************)
(* evaluate_sample                                                         *)
(***************************************************************************)
location_info(raw_sample_data) ==
    [Location |-> Get(raw_sample_data, "Location", Str(<<"Unknown">>)),
     State |-> Get(raw_sample_data, "State", Str(<<"Unknown">>)),
     District |-> Get(raw_sample_data, "District", Str(<<"Unknown">>)),
     Year |-> Get(raw_sample_data, "Year", Str(<<"Unknown">>)),
     Coordinates |-> [Latitude |-> Get(raw_sample_data, "Latitude", None),
                      Longitude |-> Get(raw_sample_data, "Longitude", None)]]

\* dict merge {**a, **b} of two records
Merge(a, b) ==
    [k \in DOMAIN a \cup DOMAIN b |-> IF k \in DOMAIN b THEN b[k] ELSE a[k]]

\* results[element] of the evaluation loop
ElementResult(r, elem, c) ==
    Merge([Concentration |-> c,
           Unit |-> Get(Get(HeavyMetals(r), elem, EmptyDict), "unit", "mg/L"),
           Permissible_Limit |->
               Get(Get(HeavyMetals(r), elem, EmptyDict), "permissible_limit", None)],
          classify_risk(r, elem, c))

\* mutant: elements the rule table does not know get no entry
EvaluateResults_KnownOnly(r, cleaned_data) ==
    [elem \in DOMAIN cleaned_data \cap DOMAIN HeavyMetals(r) |->
        ElementResult(r, elem, cleaned_data[elem])]

\* the dict `results` after the loop over cleaned_data.items()
EvaluateResults(r, cleaned_data) ==
    [elem \in DOMAIN cleaned_data |-> ElementResult(r, elem, cleaned_data[elem])]

\* overall_risk_levels after the loop, in the iteration order of cleaned_data
OverallRiskLevels(r, cleaned_data) ==
    LET order == Keys(cleaned_data)
    IN  [i \in 1..Len(order) |->
            classify_risk(r, order[i], cleaned_data[order[i]]).Risk_Level]

\* the loop over cleaned_data.items() and the return that follows it
EvaluateLoop(r, raw_sample_data, cleaned_data) ==
    [exc |-> "none", cleaned |-> cleaned_data,
     value |-> Merge(location_info(raw_sample_data),
                     [Overall_Risk |->
                          determine_overall_risk(OverallRiskLevels(r, cleaned_data)),
                      Elements_Tested |-> Cardinality(DOMAIN EvaluateResults(r, cleaned_data)),
                      Results |-> EvaluateResults(r, cleaned_data)])]

\* mutant: without the early return for an empty CleanedSample
evaluate_sample_NoEarlyReturn(r, raw_sample_data) ==
    IF clean_input_data(r, raw_sample_data).exc # "none"
    THEN [exc |-> clean_input_data(r, raw_sample_data).exc,
          cleaned |-> EmptyDict, value |-> EmptyDict]
    ELSE EvaluateLoop(r, raw_sample_data, clean_input_data(r, raw_sample_data).value)

\* evaluate_sample once clean_input_data has returned cleaned_data
EvaluateCleaned(r, raw_sample_data, cleaned_data) ==
    IF DOMAIN cleaned_data = {}
    THEN [exc |-> "none", cleaned |-> cleaned_data,
          value |-> Merge(location_info(raw_sample_data),
                          [Status |-> "No heavy metals data available",
                           Results |-> EmptyDict])]
    ELSE EvaluateLoop(r, raw_sample_data, cleaned_data)

\* value is the dict returned, cleaned the local cleaned_data, exc the
\* exception that left the call
evaluate_sample(r, raw_sample_data) ==
    IF clean_input_data(r, raw_sample_data).exc # "none"
    THEN [exc |-> clean_input_data(r, raw_sample_data).exc,
          cleaned |-> EmptyDict, value |-> EmptyDict]
    ELSE EvaluateCleaned(r, raw_sample_data, clean_input_data(r, raw_sample_data).value)

(***************************************************************************)
(* get_summary_statistics                                                  *)
(***************************************************************************)
Abs(n) == IF n < 0 THEN 0 - n ELSE n

\* round(concentration / limit, 2), counted in hundredths (2.0 is 200): the
\* quotient rounded to the nearest hundredth, a tie to the even one (limit
\* is not 0)
Round2(c, limit) ==
    LET a == Abs(c)
        b == Abs(limit)
        scaled == (a % b) * 100
        floorH == (a \div b) * 100 + scaled \div b
        rest == scaled % b
        up == 2 * rest > b \/ (2 * rest = b /\ floorH % 2 = 1)
        mag == IF up THEN floorH + 1 ELSE floorH
    IN  IF (c < 0) # (limit < 0) THEN 0 - mag ELSE mag

\* if limit and concentration > limit
AboveLimit(data) ==
    LET c == Get(data, "Concentration", 0)
        limit == Get(data, "Permissible_Limit", Number(Inf))
    IN  Truthy(limit) /\ c > limit.num

\* elements_above_limit after the loop over element_results.items()
RECURSIVE AboveLimitLoop(_, _, _)
AboveLimitLoop(element_results, order, i) ==
    IF i > Len(order) THEN <<>>
    ELSE LET data == element_results[order[i]]
             rest == AboveLimitLoop(element_results, order, i + 1)
         IN  IF AboveLimit(data)
             THEN <<[element |-> order[i],
                     concentration |-> data.Concentration,
                     limit |-> data.Permissible_Limit.num,
                     times_above_limit |->
                         Round2(data.Concentration, data.Permissible_Limit.num)]>>
                  \o rest
             ELSE rest

\* risk_counts after the loop
RiskCounts(element_results) ==
    LET present == {element_results[e].Risk_Level : e \in DOMAIN element_results}
    IN  [l \in present |->
            Cardinality({e \in DOMAIN element_results :
                            element_results[e].Risk_Level = l})]

get_summary_statistics(results) ==
    IF "Results" \notin DOMAIN results
    THEN EmptyDict
    ELSE LET element_results == results["Results"]
         IN  [Risk_Level_Counts |-> RiskCounts(element_results),
              Elements_Above_Permissible_Limit |->
                  AboveLimitLoop(element_results, Keys(element_results), 1),
              Total_Elements_Tested |-> Cardinality(DOMAIN element_results)]

(***************************************************************************)
(* Inputs: rule tables and raw samples                                     *)
(***************************************************************************)
\* longest tier list of a rule, most recognized fields of a raw sample,
\* longest list handed to determine_overall_risk
MaxTiers == 2
MaxFields == 2
MaxLevels == 3
NumCallers == 2

\* n thousandths, as a number
Milli(n) == n * Kilo

Tier(min_value, max_value, level) ==
    [min_value |-> min_value, max_value |-> max_value, level |-> level,
     diseases |-> <<level, "disease">>,
     health_effects |-> <<level, "effect">>,
     symptoms |-> <<level, "symptom">>]

\* a tier with no max_value key: unbounded above
OpenTier(min_value, level) ==
    [min_value |-> min_value, level |-> level,
     diseases |-> <<level, "disease">>,
     health_effects |-> <<level, "effect">>,
     symptoms |-> <<level, "symptom">>]

\* contiguous ascending tiers, as the rules file is meant to hold
StdTiers ==
    << Tier(0, Milli(300), "Safe"),
       Tier(Milli(300), Milli(1000), "Elevated Risk"),
       OpenTier(Milli(1000), "High Risk") >>

\* tiers with a label outside risk_priority and a tier without a level
OddTiers ==
    << Tier(0, Milli(1000), "Moderate"),
       [min_value |-> Milli(1000), max_value |-> Inf] >>

Rule(unit, limit, risk_levels) ==
    [unit |-> unit, permissible_limit |-> limit, risk_levels |-> risk_levels]

\* the rules of one element: a limit that is positive, zero, negative, null
\* or absent; a rule without a unit and with no tiers; odd tiers
ElementRules ==
    {Rule("mg/L", Number(Milli(200)), StdTiers),
     Rule("mg/L", Number(0), StdTiers),
     Rule("mg/L", Number(0 - Milli(10)), StdTiers),
     [unit |-> "mg/L", risk_levels |-> StdTiers],
     [permissible_limit |-> Number(Milli(200)), risk_levels |-> <<>>],
     Rule("mg/L", None, OddTiers)}

\* the elements the rule tables of Spec describe; every other element is
\* unknown to them
TableElements == {"Fe", "As"}

TablesOver(elems, elementRules) ==
    UNION {[present -> elementRules] : present \in SUBSET elems}

\* self.rules as load_rules leaves it; the last one has no heavy_metals key
RuleTables ==
    {[heavy_metals |-> t] : t \in TablesOver(TableElements, ElementRules)}
    \cup {EmptyDict}

\* the values a recognized field may hold
FieldValues ==
    {Number(0), Number(Milli(530)), Number(50 * One), BigInt, Bool(FALSE), Bool(TRUE),
     None, List,
     Str(<<"-">>), Str(<<>>), Str(<<" ", "0", ".", "2">>), Str(<<"a", "b", "c">>)}

SampleKeys == {"Fe (ppm)", "As (ppb)", "Pb (ppm)"}

\* the fields of a raw sample that are not measurements of a heavy metal
Envelopes ==
    {EmptyDict,
     [Location |-> Str(<<"Bakultala">>), Latitude |-> Number(12504300),
      pH |-> Number(7960000), Year |-> List]}

\* test_sample of test_engine.py (its other water-quality fields are read by
\* nothing and are left out, save pH)
TestSample ==
    [State |-> Str(<<"Andaman & Nicobar Islands">>),
     District |-> Str(<<"North & Middle Andaman">>),
     Location |-> Str(<<"Bakultala">>),
     Longitude |-> Number(92857700), Latitude |-> Number(12504300),
     Year |-> Number(2023 * Kilo), pH |-> Number(7960000)]
    @@ ("Fe (ppm)" :> Number(Milli(530)))
    @@ ("As (ppb)" :> Str(<<"-">>))
    @@ ("U (ppb)" :> Str(<<"-">>))

\* arsenic_sample of test_engine.py
ArsenicSample ==
    [Location |-> Str(<<"Test Location">>), State |-> Str(<<"Test State">>)]
    @@ ("As (ppb)" :> Number(50 * One))
    @@ ("Fe (ppm)" :> Number(Milli(200)))

RawSamples ==
    {Merge(env, fields) :
        env \in Envelopes,
        fields \in UNION {[present -> FieldValues] :
                             present \in {p \in SUBSET SampleKeys : Cardinality(p) <= MaxFields}}}
    \cup {TestSample, ArsenicSample}

(***************************************************************************)
(* The engine and its callers                                              *)
(***************************************************************************)
NoClassification == [Risk_Level |-> "", Diseases |-> <<>>,
                     Health_Effects |-> <<>>, Symptoms |-> <<>>]

\* the callers that share the engine, and the frame of a caller that is in
\* no call: pc is its position, the other fields the locals of its call
Callers == 1..NumCallers

IdleFrame ==
    [pc |-> "idle", raw |-> EmptyDict, i |-> 0, cleaned |-> EmptyDict,
     results |-> EmptyDict, levels |-> <<>>, exc |-> "none", value |-> EmptyDict]

\* no call is in progress and no result is held
Idle ==
    /\ op = "idle"
    /\ raw = EmptyDict /\ cleaned = EmptyDict /\ result = EmptyDict
    /\ raised = "none" /\ levels = <<>> /\ overall = ""
    /\ element = "" /\ concentration = 0
    /\ classification = NoClassification
    /\ summary = EmptyDict
    /\ inputUnit = "" /\ converted = 0
    /\ calls = [c \in Callers |-> IdleFrame]

\* the engine after __init__: load_rules has read the rule table
Init == rules \in RuleTables /\ Idle

\* a caller runs clean_input_data(sample) on one of the samples
Clean(samples) ==
    /\ op = "idle"
    /\ \E sample \in samples :
           /\ raw' = sample
           /\ \E c \in {clean_input_data(rules, sample)} :
                  /\ raised' = c.exc
                  /\ cleaned' = IF c.exc = "none" THEN c.value ELSE EmptyDict
    /\ op' = "clean_input_data"
    /\ UNCHANGED <<rules, calls, inputUnit, converted, result, levels, overall, element, concentration,
                   classification, summary>>

\* a caller runs evaluate_sample(sample) on one of the samples; cleaned
\* keeps the local cleaned_data of a call that returned
Evaluate(samples) ==
    /\ op = "idle"
    /\ \E sample \in samples :
           /\ raw' = sample
           /\ \E e \in {evaluate_sample(rules, sample)} :
                  /\ raised' = e.exc
                  /\ cleaned' = e.cleaned
                  /\ result' = e.value
    /\ op' = "evaluate_sample"
    /\ UNCHANGED <<rules, calls, inputUnit, converted, levels, overall, element, concentration,
                   classification, summary>>

\* the caller of evaluate_sample hands its result to get_summary_statistics
\* (app.py, evaluate_water_sample)
Summarize ==
    /\ op = "evaluate_sample" /\ raised = "none"
    /\ summary' = get_summary_statistics(result)
    /\ op' = "get_summary_statistics"
    /\ UNCHANGED <<rules, calls, inputUnit, converted, raw, cleaned, result, raised, levels, overall,
                   element, concentration, classification>>

\* the call has returned (or raised) and the caller drops what it got
Return ==
    /\ op # "idle"
    /\ op' = "idle"
    /\ raw' = EmptyDict /\ cleaned' = EmptyDict /\ result' = EmptyDict
    /\ raised' = "none" /\ levels' = <<>> /\ overall' = ""
    /\ element' = "" /\ concentration' = 0
    /\ classification' = NoClassification
    /\ summary' = EmptyDict
    /\ inputUnit' = "" /\ converted' = 0
    /\ UNCHANGED <<rules, calls>>

Next ==
    \/ Clean(RawSamples)
    \/ Evaluate(RawSamples)
    \/ Summarize
    \/ Return

Spec == Init /\ [][Next]_vars

(***************************************************************************)
(* Properties of clean_input_data and evaluate_sample                      *)
(***************************************************************************)
Mappings == {KeyMappings[i] : i \in 1..Len(KeyMappings)}

\* the call that led to this state returned a CleanedSample
Cleaned == op \in {"clean_input_data", "evaluate_sample"} /\ raised = "none"

\* evaluate_sample returned
Evaluated == op = "evaluate_sample" /\ raised = "none"

\* the recognized field of mapping m is present in the raw sample, holds
\* none of "-", null and "", and float() accepts its value
Usable(m) ==
    /\ m.key \in DOMAIN raw
    /\ raw[m.key] # Str(<<"-">>) /\ raw[m.key] # None /\ raw[m.key] # Str(<<>>)
    /\ Float(raw[m.key]).exc = "none"

\* C4: the keys of the CleanedSample are exactly the elements whose
\* recognized field is present, is none of "-", null and "", and coerces to
\* a number; no other key ever appears.
C4_CleanedKeys ==
    Cleaned => DOMAIN cleaned = {m.element : m \in {n \in Mappings : Usable(n)}}

\* clean_input_data met a sentinel, an unparseable string, an extra field
\* and a number in one sample and kept the number alone
C4_Witness ==
    /\ op = "clean_input_data" /\ raised = "none"
    /\ "pH" \in DOMAIN raw
    /\ "As (ppb)" \in DOMAIN raw /\ raw["As (ppb)"] = Str(<<"a", "b", "c">>)
    /\ "Fe (ppm)" \in DOMAIN raw /\ raw["Fe (ppm)"] = Bool(FALSE)
    /\ DOMAIN cleaned = {"Fe"}

\* C5: for a non-empty CleanedSample, Results has exactly the keys of the
\* CleanedSample and Elements_Tested is the size of Results, the number of
\* recognized fields that are present, not a sentinel and parseable; the
\* sample of test_engine.py (Fe = 0.53, As = "-", U = "-") counts 1.
C5_ElementsTested ==
    (Evaluated /\ DOMAIN cleaned # {}) =>
        /\ DOMAIN result.Results = DOMAIN cleaned
        /\ result.Elements_Tested = Cardinality(DOMAIN result.Results)
        /\ result.Elements_Tested = Cardinality({m \in Mappings : Usable(m)})
        /\ (raw = TestSample => result.Elements_Tested = 1)

\* the sample of test_engine.py was evaluated: of its three recognized
\* fields two hold "-" and Fe alone was tested
C5_Witness ==
    /\ Evaluated /\ raw = TestSample
    /\ DOMAIN result.Results = {"Fe"}
    /\ result.Elements_Tested = 1

\* C6: evaluate_sample returns the empty-sample result exactly when the
\* CleanedSample is empty: location metadata, the status marker and empty
\* Results, with no Overall_Risk and no Elements_Tested; otherwise the
\* result has Overall_Risk (never "No Data") and Elements_Tested and no
\* Status.
C6_EmptySample ==
    Evaluated =>
        /\ result.Location = (IF "Location" \in DOMAIN raw THEN raw.Location
                              ELSE Str(<<"Unknown">>))
        /\ result.State = (IF "State" \in DOMAIN raw THEN raw.State
                           ELSE Str(<<"Unknown">>))
        /\ result.District = (IF "District" \in DOMAIN raw THEN raw.District
                              ELSE Str(<<"Unknown">>))
        /\ result.Year = (IF "Year" \in DOMAIN raw THEN raw.Year
                          ELSE Str(<<"Unknown">>))
        /\ result.Coordinates.Latitude =
               (IF "Latitude" \in DOMAIN raw THEN raw.Latitude ELSE None)
        /\ result.Coordinates.Longitude =
               (IF "Longitude" \in DOMAIN raw THEN raw.Longitude ELSE None)
        /\ IF DOMAIN cleaned = {}
           THEN /\ DOMAIN result = {"Location", "State", "District", "Year",
                                    "Coordinates", "Status", "Results"}
                /\ result.Status = "No heavy metals data available"
                /\ DOMAIN result.Results = {}
           ELSE /\ DOMAIN result = {"Location", "State", "District", "Year",
                                    "Coordinates", "Overall_Risk",
                                    "Elements_Tested", "Results"}
                /\ result.Overall_Risk # "No Data"

\* a sample with location fields whose only measurements are a sentinel and
\* an unparseable value got the empty-sample result
C6_Witness ==
    /\ Evaluated
    /\ "Location" \in DOMAIN raw
    /\ "As (ppb)" \in DOMAIN raw /\ raw["As (ppb)"] = Str(<<"-">>)
    /\ "Fe (ppm)" \in DOMAIN raw /\ raw["Fe (ppm)"] = List
    /\ "Status" \in DOMAIN result
    /\ result.Location = Str(<<"Bakultala">>)

\* C2: for a non-empty CleanedSample, Overall_Risk is the risk level of at
\* least one entry of Results and no entry of Results ranks strictly higher.
C2_OverallIsMostSevere ==
    (Evaluated /\ DOMAIN cleaned # {}) =>
        /\ \E e \in DOMAIN result.Results :
               result.Results[e].Risk_Level = result.Overall_Risk
        /\ \A e \in DOMAIN result.Results :
               Priority(result.Results[e].Risk_Level) <= Priority(result.Overall_Risk)

\* the unit of the recognized field of an element
FieldOf(e) == CHOOSE m \in Mappings : m.element = e

\* C8: every Concentration of Results is the raw field value converted from
\* the unit of the field to the unit the same entry reports, by the
\* conversion table.
C8_CanonicalUnits ==
    (Evaluated /\ DOMAIN cleaned # {}) =>
        \A e \in DOMAIN result.Results :
            result.Results[e].Concentration =
                Times(Float(raw[FieldOf(e).key]).num,
                      ConversionFactor(FieldOf(e).unit, result.Results[e].Unit))

\* the raw sample without the recognized fields float() rejects
WithoutUnparseable ==
    LET bad == {m.key : m \in {n \in Mappings :
                    n.key \in DOMAIN raw /\ Float(raw[n.key]).exc # "none"}}
    IN  [k \in DOMAIN raw \ bad |-> raw[k]]

\* C9: no error leaves evaluate_sample, whatever the fields hold; a field
\* that does not coerce to a number is skipped and the result is the one of
\* the sample without that field.
C9_NoErrorPropagates ==
    op = "evaluate_sample" =>
        /\ raised = "none"
        /\ result = evaluate_sample(rules, WithoutUnparseable).value

\* C10: Elements_Above_Permissible_Limit has exactly one entry for each
\* element of Results whose limit is set and positive and whose
\* concentration strictly exceeds it, and none for any other element; an
\* entry carries the concentration, the limit and their ratio rounded to 2
\* decimals.
C10_AboveLimit ==
    op = "get_summary_statistics" =>
        LET above == summary.Elements_Above_Permissible_Limit
            res == result.Results
            over == {e \in DOMAIN res :
                        /\ res[e].Permissible_Limit.kind = "number"
                        /\ res[e].Permissible_Limit.num > 0
                        /\ res[e].Concentration > res[e].Permissible_Limit.num}
        IN  /\ {above[i].element : i \in 1..Len(above)} = over
            /\ Len(above) = Cardinality(over)
            /\ \A i \in 1..Len(above) :
                   LET e == above[i].element
                   IN  /\ above[i].concentration = res[e].Concentration
                       /\ above[i].limit = res[e].Permissible_Limit.num
                       \* within half a hundredth of concentration / limit
                       /\ LET c == above[i].concentration
                              l == above[i].limit
                              t == above[i].times_above_limit
                          IN  2 * Abs((t - 100 * (c \div l)) * l - 100 * (c % l)) <= l
                       /\ (above[i].concentration = 2 * One /\ above[i].limit = One)
                              => above[i].times_above_limit = 200

(***************************************************************************)
(* determine_overall_risk on its own                                       *)
(***************************************************************************)
\* the labels handed to determine_overall_risk: those of risk_priority and
\* one it does not know
Labels ==
    {"Safe", "Elevated Risk", "High Risk", "Severe Risk", "Unknown Element",
     "No Classification Available", "Moderate"}

LevelLists == UNION {[1..n -> Labels] : n \in 0..MaxLevels}

\* a caller runs determine_overall_risk(risk_levels) on one of the lists
Aggregate(lists) ==
    /\ op = "idle"
    /\ op' = "determine_overall_risk"
    /\ \E risk_levels \in lists :
           /\ levels' = risk_levels
           /\ overall' = determine_overall_risk(risk_levels)
    /\ UNCHANGED <<rules, calls, inputUnit, converted, raw, cleaned, result, raised, element, concentration,
                   classification, summary>>

NextAggregate ==
    \/ Aggregate(LevelLists)
    \/ Return

SpecAggregate == Init /\ [][NextAggregate]_vars

\* the severity ranking as the specification lists it
Rank(label) ==
    CASE label = "Safe" -> 0
      [] label = "Unknown Element" -> 0
      [] label = "No Classification Available" -> 0
      [] label = "Elevated Risk" -> 1
      [] label = "High Risk" -> 2
      [] label = "Severe Risk" -> 3
      [] OTHER -> 0

\* the first label of the ranking table, in declaration order, of rank n
FirstOfRank(n) ==
    risk_priority[CHOOSE i \in 1..Len(risk_priority) :
                      /\ Rank(risk_priority[i].level) = n
                      /\ \A j \in 1..(i - 1) : Rank(risk_priority[j].level) # n].level

\* C1: determine_overall_risk returns "No Data" for the empty list and
\* otherwise the first label, in the declaration order of the ranking
\* table, whose rank is the greatest rank among the inputs; the result is a
\* function of the set of input labels, not of their order.
C1_Aggregate ==
    op = "determine_overall_risk" =>
        IF levels = <<>>
        THEN overall = "No Data"
        ELSE LET given == {levels[i] : i \in 1..Len(levels)}
                 top == CHOOSE n \in {Rank(l) : l \in given} :
                            \A l \in given : Rank(l) <= n
             IN  /\ overall = FirstOfRank(top)
                 /\ (levels = <<"Safe">> => overall = "Safe")
                 /\ (given = {"Safe", "High Risk", "Elevated Risk"}
                        => overall = "High Risk")

\* the list of the specification's example, in an order other than the
\* example's, gave "High Risk"
C1_Witness ==
    /\ op = "determine_overall_risk"
    /\ levels = <<"Elevated Risk", "High Risk", "Safe">>
    /\ overall = "High Risk"

(***************************************************************************)
(* classify_risk on its own                                                *)
(***************************************************************************)
\* tiers that overlap, leave gaps, lack keys and come in any order
TierPool ==
    {Tier(0, 10 * One, "Safe"),
     Tier(5 * One, 100 * One, "High Risk"),
     OpenTier(200 * One, "Severe Risk"),
     [max_value |-> 5 * One, diseases |-> <<"d">>]}

TierLists == UNION {[1..n -> TierPool] : n \in 0..MaxTiers}

\* rule tables that describe As alone, with any tier list or none
ClassifyTables ==
    {[heavy_metals |-> ("As" :> [unit |-> "mg/L", risk_levels |-> tl])] :
        tl \in TierLists}
    \cup {[heavy_metals |-> ("As" :> [unit |-> "mg/L"])], EmptyDict}

ClassifyElements == {"As", "Fe"}

\* concentrations below, on, between and above the bounds of the tiers
Concentrations ==
    {0 - One, 0, 3 * One, 5 * One, 7 * One, 10 * One, 50 * One, 100 * One,
     150 * One, 200 * One, 500 * One}

InitClassify == rules \in ClassifyTables /\ Idle

\* a caller runs classify_risk(elem, c)
Classify(elems, concentrations) ==
    /\ op = "idle"
    /\ op' = "classify_risk"
    /\ \E elem \in elems, c \in concentrations :
           /\ element' = elem
           /\ concentration' = c
           /\ classification' = classify_risk(rules, elem, c)
    /\ UNCHANGED <<rules, calls, inputUnit, converted, raw, cleaned, result, raised, levels, overall, summary>>

NextClassify ==
    \/ Classify(ClassifyElements, Concentrations)
    \/ Return

SpecClassify == InitClassify /\ [][NextClassify]_vars

\* tier t covers concentration c: min_value <= c < max_value, an absent
\* bound being 0 below and unbounded above
Covers(t, c) ==
    /\ (IF "min_value" \in DOMAIN t THEN t.min_value ELSE 0) <= c
    /\ ("max_value" \in DOMAIN t => c < t.max_value)

\* what a tier carries
PayloadOf(t) ==
    [Risk_Level |-> IF "level" \in DOMAIN t THEN t.level ELSE "Unknown",
     Diseases |-> IF "diseases" \in DOMAIN t THEN t.diseases ELSE <<>>,
     Health_Effects |-> IF "health_effects" \in DOMAIN t THEN t.health_effects ELSE <<>>,
     Symptoms |-> IF "symptoms" \in DOMAIN t THEN t.symptoms ELSE <<>>]

\* C3: classify_risk gives "Unknown Element" with empty diseases and
\* symptoms and non-empty health effects for an element outside the rule
\* table; otherwise the payload of the first tier, in sequence order, that
\* covers the concentration; the payload of the last tier when none does;
\* "No Classification Available" with empty lists when there is no tier.
C3_Classify ==
    op = "classify_risk" =>
        IF element \notin DOMAIN HeavyMetals(rules)
        THEN /\ classification.Risk_Level = "Unknown Element"
             /\ classification.Diseases = <<>>
             /\ classification.Symptoms = <<>>
             /\ classification.Health_Effects # <<>>
        ELSE LET rule == rules.heavy_metals[element]
                 tiers == IF "risk_levels" \in DOMAIN rule THEN rule.risk_levels ELSE <<>>
                 covering == {i \in 1..Len(tiers) : Covers(tiers[i], concentration)}
             IN  IF tiers = <<>>
                 THEN classification =
                          [Risk_Level |-> "No Classification Available",
                           Diseases |-> <<>>, Health_Effects |-> <<>>, Symptoms |-> <<>>]
                 ELSE IF covering = {}
                 THEN classification = PayloadOf(tiers[Len(tiers)])
                 ELSE classification =
                          PayloadOf(tiers[CHOOSE i \in covering :
                                              \A j \in covering : i <= j])

\* two overlapping tiers out of order both cover 7; the first in sequence
\* order, not the one with the lower bound, was returned
C3_Witness ==
    /\ op = "classify_risk" /\ element = "As" /\ concentration = 7 * One
    /\ "As" \in DOMAIN HeavyMetals(rules)
    /\ "risk_levels" \in DOMAIN rules.heavy_metals["As"]
    /\ rules.heavy_metals["As"].risk_levels =
           <<Tier(5 * One, 100 * One, "High Risk"), Tier(0, 10 * One, "Safe")>>
    /\ classification.Risk_Level = "High Risk"

(***************************************************************************)
(* The arsenic scenario of test_engine.py                                  *)
(***************************************************************************)
\* tiers for As: the scenario's 'High Risk' tier over [10, 100), the same
\* tier over [0.01, 0.1), and tiers beside them
ArsenicTierPool ==
    {Tier(0, Milli(10), "Safe"),
     Tier(Milli(10), Milli(100), "High Risk"),
     Tier(Milli(100), 10 * One, "Severe Risk"),
     Tier(0, 10 * One, "Safe"),
     Tier(10 * One, 100 * One, "High Risk"),
     OpenTier(100 * One, "Severe Risk")}

\* tiers for Fe: the scenario's 'Safe' tier over [0, 0.6) and tiers above
IronTierPool ==
    {Tier(0, Milli(600), "Safe"),
     Tier(Milli(600), One, "Elevated Risk"),
     OpenTier(One, "High Risk")}

\* no concentration is covered by two tiers of the list
Disjoint(tiers) ==
    \A i, j \in 1..Len(tiers) :
        i # j => \/ tiers[i].min_value >= Get(tiers[j], "max_value", Inf)
                 \/ tiers[j].min_value >= Get(tiers[i], "max_value", Inf)

DisjointLists(pool) ==
    {tl \in UNION {[1..n -> pool] : n \in 0..MaxTiers} : Disjoint(tl)}

\* rule tables for As and Fe in mg/L, any disjoint tiers in any order
ArsenicTables ==
    {[heavy_metals |->
        [As |-> Rule("mg/L", Number(Milli(10)), at),
         Fe |-> Rule("mg/L", Number(Milli(300)), ft)]] :
        at \in DisjointLists(ArsenicTierPool), ft \in DisjointLists(IronTierPool)}

InitArsenic == rules \in ArsenicTables /\ Idle

NextArsenic ==
    \/ Evaluate({ArsenicSample})
    \/ Summarize
    \/ Return

SpecArsenic == InitArsenic /\ [][NextArsenic]_vars

\* the rule of element e has unit mg/L and a tier of this level and bounds
HasTier(e, level, min_value, max_value) ==
    /\ e \in DOMAIN HeavyMetals(rules)
    /\ rules.heavy_metals[e].unit = "mg/L"
    /\ \E i \in 1..Len(rules.heavy_metals[e].risk_levels) :
           LET t == rules.heavy_metals[e].risk_levels[i]
           IN  /\ t.level = level /\ t.min_value = min_value
               /\ "max_value" \in DOMAIN t /\ t.max_value = max_value

\* the arsenic sample was evaluated
ArsenicEvaluated == Evaluated /\ raw = ArsenicSample

\* C7 as stated: with As and Fe in mg/L, an As 'High Risk' tier over
\* [10, 100) and an Fe 'Safe' tier over [0, 0.6), the sample As = 50 ppb,
\* Fe = 0.2 ppm has Overall_Risk "High Risk" and Elements_Tested 2.
C7_AsStated ==
    (/\ ArsenicEvaluated
     /\ HasTier("As", "High Risk", 10 * One, 100 * One)
     /\ HasTier("Fe", "Safe", 0, Milli(600)))
    => /\ result.Overall_Risk = "High Risk"
       /\ result.Elements_Tested = 2

\* C7 amended: the As reading of 50 ppb is 0.05 mg/L; with disjoint tiers,
\* an As 'High Risk' tier over [0.01, 0.1) and an Fe 'Safe' tier over
\* [0, 0.6), Overall_Risk is "High Risk" and Elements_Tested is 2, As being
\* classified 'High Risk' at concentration 0.05 and Fe 'Safe'.
C7_Arsenic ==
    (/\ ArsenicEvaluated
     /\ HasTier("As", "High Risk", Milli(10), Milli(100))
     /\ HasTier("Fe", "Safe", 0, Milli(600)))
    => /\ result.Overall_Risk = "High Risk"
       /\ result.Elements_Tested = 2
       /\ result.Results["As"].Concentration = Milli(50)
       /\ result.Results["As"].Risk_Level = "High Risk"
       /\ result.Results["Fe"].Risk_Level = "Safe"

\* the arsenic sample met contiguous As tiers Safe [0, 0.01) and High Risk
\* [0.01, 0.1) and came out "High Risk" with two elements tested
C7_Witness ==
    /\ ArsenicEvaluated
    /\ HasTier("As", "High Risk", Milli(10), Milli(100))
    /\ HasTier("As", "Safe", 0, Milli(10))
    /\ HasTier("Fe", "Safe", 0, Milli(600))
    /\ result.Overall_Risk = "High Risk"
    /\ result.Elements_Tested = 2

(***************************************************************************)
(* The summary of absent and of empty results                              *)
(***************************************************************************)
\* the sum of the counts of a Risk_Level_Counts mapping
RECURSIVE SumCounts(_)
SumCounts(counts) ==
    IF DOMAIN counts = {} THEN 0
    ELSE LET l == CHOOSE k \in DOMAIN counts : TRUE
         IN  counts[l] + SumCounts([k \in DOMAIN counts \ {l} |-> counts[k]])

\* an evaluation result stripped of its Results mapping
WithoutResults(results) ==
    [k \in DOMAIN results \ {"Results"} |-> results[k]]

\* C11: the summary of a result whose Results mapping is empty is the same
\* empty summary as the summary of a result with no Results mapping; for a
\* non-empty Results mapping, Total_Elements_Tested is the number of entries
\* of Results and the counts of Risk_Level_Counts sum to that number.
C11_EmptySummary ==
    op = "get_summary_statistics" =>
        IF DOMAIN result.Results = {}
        THEN /\ get_summary_statistics(WithoutResults(result)) = EmptyDict
             /\ summary = get_summary_statistics(WithoutResults(result))
        ELSE /\ summary.Total_Elements_Tested = Cardinality(DOMAIN result.Results)
             /\ SumCounts(summary.Risk_Level_Counts) = Cardinality(DOMAIN result.Results)

(***************************************************************************)
(* convert_units on its own                                                *)
(***************************************************************************)
\* units a field or a rule may name; "g/L" is in no row of the table
Units == {"ppm", "ppb", "ug/L", "mg/L", "g/L"}

\* the rule of one element: any unit, or no unit key at all
UnitRules == {[unit |-> u] : u \in Units} \cup {[risk_levels |-> <<>>]}

ConvertTables ==
    {[heavy_metals |-> t] : t \in TablesOver(TableElements, UnitRules)}
    \cup {EmptyDict}

ConvertElements == {"Fe", "As", "Pb"}

\* values a whole number of thousandths, so that a thousandth of them is
\* still a whole number of millionths
ConvertValues == {0 - Milli(10), 0, Milli(1), Milli(530), One, 50 * One}

InitConvert == rules \in ConvertTables /\ Idle

\* a caller runs convert_units(elem, value, unit)
Convert(elems, values, units) ==
    /\ op = "idle"
    /\ op' = "convert_units"
    /\ \E elem \in elems, value \in values, unit \in units :
           /\ element' = elem
           /\ concentration' = value
           /\ inputUnit' = unit
           /\ converted' = convert_units(rules, elem, value, unit)
    /\ UNCHANGED <<rules, calls, raw, cleaned, result, raised, levels, overall,
                   classification, summary>>

NextConvert ==
    \/ Convert(ConvertElements, ConvertValues, Units)
    \/ Return

SpecConvert == InitConvert /\ [][NextConvert]_vars

\* the element of the call is in the rule table
InTable ==
    /\ "heavy_metals" \in DOMAIN rules
    /\ element \in DOMAIN rules.heavy_metals

\* the canonical unit of the element of the call
CanonicalUnit ==
    IF "unit" \in DOMAIN rules.heavy_metals[element]
    THEN rules.heavy_metals[element].unit
    ELSE "mg/L"

\* C12: convert_units returns the value unchanged for an element outside the
\* rule table; otherwise it returns the value times the factor of (input
\* unit, canonical unit of the element, mg/L if the rule names none): 0.001
\* for ppb and ug/L to mg/L, 1 for ppm and mg/L to mg/L and for every other
\* pair; so a value given in the canonical unit itself comes back unchanged,
\* and the product is not rounded.
C12_Convert ==
    op = "convert_units" =>
        IF ~InTable
        THEN converted = concentration
        ELSE /\ (CanonicalUnit = "mg/L" /\ inputUnit \in {"ppb", "ug/L"})
                    => converted * Kilo = concentration
             /\ (CanonicalUnit = "mg/L" /\ inputUnit \in {"ppm", "mg/L"})
                    => converted = concentration
             /\ (CanonicalUnit # "mg/L" \/ inputUnit \notin {"ppm", "ppb", "ug/L", "mg/L"})
                    => converted = concentration
             /\ inputUnit = CanonicalUnit => converted = concentration

\* 50 ppb of an element kept in mg/L came back as 0.05, and 50 ppb of an
\* element kept in ppb came back as 50
C12_Witness ==
    /\ op = "convert_units"
    /\ InTable
    /\ inputUnit = "ppb"
    /\ concentration = 50 * One
    /\ \/ CanonicalUnit = "mg/L" /\ converted = Milli(50)
       \/ CanonicalUnit = "ppb" /\ converted = 50 * One

(***************************************************************************)
(* Concurrent callers of one engine                                        *)
(***************************************************************************)
\* one iteration of the for loop of clean_input_data, on entry i of
\* key_mappings
CleanIteration(r, raw_data, i, cleaned_data) ==
    LET m == KeyMappings[i]
    IN  IF m.key \notin DOMAIN raw_data \/ IsMissing(raw_data[m.key])
        THEN [exc |-> "none", value |-> cleaned_data]
        ELSE IF Float(raw_data[m.key]).exc = "none"
        THEN [exc |-> "none",
              value |-> Put(cleaned_data, m.element,
                            convert_units(r, m.element, Float(raw_data[m.key]).num,
                                          m.unit))]
        ELSE IF Float(raw_data[m.key]).exc \in {"ValueError", "TypeError"}
        THEN [exc |-> "none", value |-> cleaned_data]
        ELSE [exc |-> Float(raw_data[m.key]).exc, value |-> cleaned_data]

\* mutant: the lookup of an element inserts an empty rule for an element the
\* table does not hold (setdefault in place of get)
RulesAfterLookup_SetDefault(r, elem) ==
    IF "heavy_metals" \in DOMAIN r /\ elem \notin DOMAIN r.heavy_metals
    THEN [r EXCEPT !.heavy_metals = Put(@, elem, EmptyDict)]
    ELSE r

\* self.rules after the lookups of one iteration of the evaluation loop:
\* every access is a .get() or a subscript read, none writes
RulesAfterLookup(r, elem) == r

\* the samples the concurrent callers submit: the two of test_engine.py, one
\* with no heavy-metal field and one whose As reading makes float() overflow
ConcurrentSamples ==
    {TestSample, ArsenicSample, EmptyDict,
     ("Fe (ppm)" :> Number(Milli(200))) @@ ("As (ppb)" :> BigInt)}

\* a table without heavy_metals, one that knows Fe alone (As is unknown to
\* it) and one that knows Fe and As
ConcurrentTables ==
    {EmptyDict,
     [heavy_metals |-> ("Fe" :> Rule("mg/L", Number(Milli(300)), StdTiers))],
     [heavy_metals |-> ("Fe" :> Rule("mg/L", Number(Milli(300)), StdTiers))
                       @@ ("As" :> Rule("mg/L", Number(Milli(10)), StdTiers))]}

InitConcurrent == rules \in ConcurrentTables /\ Idle

\* caller c enters evaluate_sample(sample): location_info is built from the
\* sample alone, then clean_input_data starts with an empty cleaned_data
Enter(c, samples) ==
    /\ calls[c].pc = "idle"
    /\ \E sample \in samples :
           calls' = [calls EXCEPT ![c] = [IdleFrame EXCEPT !.pc = "clean",
                                                           !.raw = sample,
                                                           !.i = 1]]
    /\ UNCHANGED <<rules, op, raw, cleaned, result, raised, levels, overall,
                   element, concentration, classification, summary,
                   inputUnit, converted>>

\* caller c runs one iteration of the loop of clean_input_data; an exception
\* that is not caught leaves evaluate_sample
CleanStep(c) ==
    /\ calls[c].pc = "clean"
    /\ calls[c].i <= Len(KeyMappings)
    /\ \E it \in {CleanIteration(rules, calls[c].raw, calls[c].i, calls[c].cleaned)} :
           calls' = [calls EXCEPT ![c] =
                        IF it.exc = "none"
                        THEN [@ EXCEPT !.cleaned = it.value, !.i = @ + 1]
                        ELSE [@ EXCEPT !.pc = "raised", !.exc = it.exc]]
    /\ UNCHANGED <<rules, op, raw, cleaned, result, raised, levels, overall,
                   element, concentration, classification, summary,
                   inputUnit, converted>>

\* clean_input_data has returned to caller c: `if not cleaned_data` returns
\* the result of an empty sample, otherwise the evaluation loop starts
CleanReturn(c) ==
    /\ calls[c].pc = "clean"
    /\ calls[c].i > Len(KeyMappings)
    /\ calls' = [calls EXCEPT ![c] =
                    IF DOMAIN calls[c].cleaned = {}
                    THEN [@ EXCEPT !.pc = "returned",
                                   !.value = Merge(location_info(calls[c].raw),
                                                   [Status |-> "No heavy metals data available",
                                                    Results |-> EmptyDict])]
                    ELSE [@ EXCEPT !.pc = "loop", !.i = 1]]
    /\ UNCHANGED <<rules, op, raw, cleaned, result, raised, levels, overall,
                   element, concentration, classification, summary,
                   inputUnit, converted>>

\* caller c runs one iteration of the evaluation loop: classify_risk and the
\* two lookups of the element's rule
LoopStep(c) ==
    /\ calls[c].pc = "loop"
    /\ calls[c].i <= Len(Keys(calls[c].cleaned))
    /\ \E elem \in {Keys(calls[c].cleaned)[calls[c].i]} :
           /\ \E er \in {ElementResult(rules, elem, calls[c].cleaned[elem])} :
                  calls' = [calls EXCEPT ![c] =
                               [@ EXCEPT !.results = Put(@, elem, er),
                                         !.levels = Append(@, er.Risk_Level),
                                         !.i = @ + 1]]
           /\ rules' = RulesAfterLookup(rules, elem)
    /\ UNCHANGED <<op, raw, cleaned, result, raised, levels, overall,
                   element, concentration, classification, summary,
                   inputUnit, converted>>

\* the loop of caller c is over: determine_overall_risk and the return
LoopReturn(c) ==
    /\ calls[c].pc = "loop"
    /\ calls[c].i > Len(Keys(calls[c].cleaned))
    /\ calls' = [calls EXCEPT ![c] =
                    [@ EXCEPT !.pc = "returned",
                              !.value = Merge(location_info(calls[c].raw),
                                              [Overall_Risk |->
                                                   determine_overall_risk(calls[c].levels),
                                               Elements_Tested |->
                                                   Cardinality(DOMAIN calls[c].results),
                                               Results |-> calls[c].results])]]
    /\ UNCHANGED <<rules, op, raw, cleaned, result, raised, levels, overall,
                   element, concentration, classification, summary,
                   inputUnit, converted>>

\* evaluate_water_sample of caller c stores the summary in its own result
AddSummary(c) ==
    /\ calls[c].pc = "returned"
    /\ calls' = [calls EXCEPT ![c] =
                    [@ EXCEPT !.pc = "summarized",
                              !.value = Put(@, "Summary",
                                            get_summary_statistics(calls[c].value))]]
    /\ UNCHANGED <<rules, op, raw, cleaned, result, raised, levels, overall,
                   element, concentration, classification, summary,
                   inputUnit, converted>>

\* the request of caller c is answered, with the result or with the error
Respond(c) ==
    /\ calls[c].pc \in {"summarized", "raised"}
    /\ calls' = [calls EXCEPT ![c] = IdleFrame]
    /\ UNCHANGED <<rules, op, raw, cleaned, result, raised, levels, overall,
                   element, concentration, classification, summary,
                   inputUnit, converted>>

NextConcurrent ==
    \E c \in Callers :
        \/ Enter(c, ConcurrentSamples)
        \/ CleanStep(c)
        \/ CleanReturn(c)
        \/ LoopStep(c)
        \/ LoopReturn(c)
        \/ AddSummary(c)
        \/ Respond(c)

SpecConcurrent == InitConcurrent /\ [][NextConcurrent]_vars

\* a frame holds what its call gives when run alone under rule table r: the
\* error of a call that raised, the result of a call that returned, with
\* the summary of that result once it is added
AsIfAlone(r, frame) ==
    /\ frame.pc = "raised"
           => frame.exc = evaluate_sample(r, frame.raw).exc
    /\ frame.pc = "returned"
           => /\ evaluate_sample(r, frame.raw).exc = "none"
              /\ frame.value = evaluate_sample(r, frame.raw).value
    /\ frame.pc = "summarized"
           => /\ evaluate_sample(r, frame.raw).exc = "none"
              /\ frame.value =
                     Put(evaluate_sample(r, frame.raw).value, "Summary",
                         get_summary_statistics(evaluate_sample(r, frame.raw).value))

\* C13: no step of any caller changes the rule table, whatever the other
\* callers are doing, and after every step each caller whose evaluate_sample
\* call has returned or raised holds exactly what that call gives when run
\* alone on its raw sample under the rule table.
C13_Stateless ==
    [][/\ rules' = rules
       /\ \A c \in Callers : AsIfAlone(rules, calls'[c])]_vars

\* two calls overlap: one caller is inside its evaluation loop while another
\* has already got the result of a different sample
C13_Witness ==
    \E c, d \in Callers :
        /\ calls[c].pc = "loop" /\ calls[c].i = 2
        /\ calls[d].pc = "returned"
        /\ calls[d].raw # calls[c].raw
        /\ DOMAIN calls[d].value.Results # {}

====
